---- MODULE Spec2Model ----
(***************************************************************************)
(* A model of the question-answering service of this repository:           *)
(*   - the adaptive threshold controller of server.py (api_ask,            *)
(*     api_evolve, the reload of the threshold from logs.json at start)    *)
(*     and of strategy.py (Strategy.adjust_threshold);                     *)
(*   - the retrieval function main.query_documents and the answer          *)
(*     composer core.search.search_answer;                                 *)
(*   - the background crawler of server.py (_start_crawl, _crawl_worker,   *)
(*     api_crawl_stop, api_crawl) with the shared document store and the   *)
(*     in-memory index (docs, doc_vecs, idf).                              *)
(*                                                                         *)
(* Thresholds and similarity scores are Python floats in the code.  They   *)
(* are modelled as integers counting units of 1e-7: 0.05 is 500000, 0.5    *)
(* is 5000000, 0.02 is 200000.  round(x, 6) is then rounding to a multiple *)
(* of 10 units.                                                            *)
(*                                                                         *)
(* Request handlers run on threads of their own (Flask's threaded server): *)
(* a handler is a sequence of steps, one action per step, and a step ends  *)
(* wherever another thread can run between a read and a write of shared    *)
(* state.  Code under `with _crawl_lock` is one step.                      *)
(***************************************************************************)
EXTENDS Integers, Sequences, FiniteSets, TLC

VARIABLES
    threshold,      \* server.threshold, the process-wide similarity threshold
    log_file,       \* the content of logs.json: a sequence of entries
    ask,            \* per request thread: where api_ask is and its locals
    evolve,         \* the api_evolve request thread and its local `old`
    response,       \* the last HTTP response returned: [op, status]
    nreq,           \* ask and evolve requests accepted so far
    nrestart,       \* process restarts so far
    hist,           \* history: threshold at process start and the updates applied since
    adjust,         \* one call of Strategy.adjust_threshold / of api_ask's update
    query,          \* one call of main.query_documents, as GET /search makes it
    search,         \* one call of core.search.search_answer
    dataset,        \* the content of dummy_data.json: a sequence of documents
    docs,           \* server.docs, the in-memory documents
    doc_vecs,       \* server.doc_vecs, one term vector per indexed document
    idf,            \* server.idf, the idf table of the index
    crawl_state,    \* server._crawl_state; `session` names its visited and queue objects
    visited,        \* the visited sets created so far, by session
    queue,          \* the queues created so far, by session
    worker,         \* the _crawl_worker threads started so far and their locals
    nstart,         \* crawl threads started so far
    single,         \* the api_crawl request thread and its locals
    reader,         \* what the last GET /search loaded of (doc_vecs, idf, docs)
    stopped,        \* history: the live workers that were alive when a stop was requested
    cli             \* the interactive process of main.py: its position and the locals of main()

thrVars == <<threshold, log_file, ask, evolve, hist>>
idxVars == <<dataset, docs, doc_vecs, idf>>
fnVars == <<adjust, query, search, cli>>
crawlVars == <<crawl_state, visited, queue, worker, nstart, single, reader, stopped>>
vars == <<threshold, log_file, ask, evolve, response, nreq, nrestart, hist,
          adjust, query, search, dataset, docs, doc_vecs, idf,
          crawl_state, visited, queue, worker, nstart, single, reader, stopped, cli>>

----------------------------------------------------------------------------
(* Bounds of the model *)

\* request threads that may run api_ask concurrently
MaxThreads == 2
\* HTTP requests accepted in one behaviour
MaxRequests == 3
\* process restarts in one behaviour
MaxRestarts == 1
\* starting thresholds tried for one adjustment: k * CurrentGrain, |k| <= MaxCurrent
MaxCurrent == 60
\* |k| of the top_k values tried for query_documents
MaxK == 4
\* indexed documents in one call of query_documents
MaxIndexed == 3
\* passages the vector backend returns in one call of search_answer
MaxPassages == 2
\* rows of one ranked result of the vector backend
MaxRanked == 4
\* crawl sessions (and crawl threads) started in one behaviour
MaxSessions == 2
\* the page budgets a crawl is started with: 1..MaxPages
MaxPages == 1
\* seeds of one crawl
MaxSeeds == 2
\* links extracted from one page
MaxLinks == 1
\* distinct page URLs the crawler meets
NumPages == 2
\* distinct page texts (first 5000 characters)
NumContents == 1
\* POST /api/crawl requests in one behaviour
MaxSingle == 1
\* runs of the interactive process, and questions asked in one run
MaxCliRuns == 2
MaxCliQueries == 2
\* answered interactions in one run of adjustments
MaxSteps == 5
\* max_pages of a crawl session that is run to its end
MaxBudget == 2
\* distinct page URLs; URL u is on domain DomainOf(u)
NumUrls == 3
\* documents in the seeded dummy_data.json
NumSeedDocs == 3

----------------------------------------------------------------------------
(* Program constants, in units of 1e-7 *)

\* Strategy's hyper-parameters
threshold_min == 500000
threshold_max == 5000000
step_success == 200000
step_fail == 200000
top_k == 3

\* the literals of api_ask, api_evolve and _get_last_threshold
AskMin == 500000
AskMax == 5000000
AskStep == 200000
EvolveStep == 100000
DefaultThreshold == 1000000
\* main(): the threshold at the start, its limits and its step
CliThreshold == 1000000
CliMin == 500000
CliMax == 5000000
CliStep == 200000

\* 1.0, the upper clamp of the confidence
One == 10000000
\* the defaults of RETRIEVAL_TOP_K and CONFIDENCE_THRESHOLD, of k in GET /search
RetrievalTopK == 6
ConfidenceThreshold == 2500000
SearchDefaultK == 5

\* spacing of the starting thresholds tried (about 0.01, not a multiple of 1e-6)
CurrentGrain == 100003

Max(a, b) == IF a >= b THEN a ELSE b
Min(a, b) == IF a <= b THEN a ELSE b

\* Python's round(x, 6) on a value in units of 1e-7: the nearest multiple of
\* 10, a tie going to the even one.  \div and % round towards minus infinity.
Round6(x) ==
    LET q == x \div 10
        r == x % 10
    IN  IF r < 5 THEN q * 10
        ELSE IF r > 5 THEN (q + 1) * 10
        ELSE IF q % 2 = 0 THEN q * 10 ELSE (q + 1) * 10

----------------------------------------------------------------------------
(* Documents and the TF-IDF index (main.py) *)

Urls == 1..NumUrls

\* A page text: `head` stands for its first 5000 characters, `tail` for the
\* rest (0: the text has at most 5000 characters).
Truncate(c) == [c EXCEPT !.tail = 0]

Doc(u, c) == [url |-> u, content |-> Truncate(c)]

\* tokenize(title + " " + content): the terms of a document.  The title of a
\* stored page is derived from its URL, the content from its text, so a
\* document has one term for each.
tokenize(d) == <<<<"title", d.url>>, <<"content", d.content.head>>>>

TermSet(d) == {tokenize(d)[i] : i \in 1..Len(tokenize(d))}

\* build_index: doc_freq counts the documents holding a term; idf[t] is
\* log((N + 1) / (df + 1)) + 1.0, kept as the pair <<N + 1, df + 1>> under
\* the logarithm; a vector maps each term of the document to tf * idf, kept
\* as <<count, length, idf>>.
build_index(ds) ==
    LET N == Len(ds)
        terms == UNION {TermSet(ds[i]) : i \in 1..N}
        df(t) == Cardinality({i \in 1..N : t \in TermSet(ds[i])})
        idfv == [t \in terms |-> <<N + 1, df(t) + 1>>]
        count(d, t) == Cardinality({i \in 1..Len(tokenize(d)) : tokenize(d)[i] = t})
        vec(d) == [t \in TermSet(d) |-> <<count(d, t), Max(Len(tokenize(d)), 1), idfv[t]>>]
    IN  [vectors |-> [i \in 1..N |-> vec(ds[i])], idf |-> idfv]

\* the seeded store: one document per seeded URL
SeedDataset == [i \in 1..NumSeedDocs |-> Doc(i, [head |-> i, tail |-> 0])]

\* Cosine similarities are floats computed from the vectors; a question is
\* given by the similarity it has with each indexed vector.
ScoreValues == {0, 800000, 3000000}

\* s[:k] of Python: the first k elements, or all but the last -k when k < 0
PySlice(s, k) ==
    SubSeq(s, 1, IF k >= 0 THEN Min(k, Len(s)) ELSE Max(0, Len(s) + k))

\* scores.sort(reverse=True, key=score): descending and stable
SortScores(sim) ==
    LET n == Len(sim)
        rank(i) == Cardinality({j \in 1..n : sim[j] > sim[i] \/ (sim[j] = sim[i] /\ j < i)}) + 1
    IN  [p \in 1..n |-> LET i == CHOOSE i \in 1..n : rank(i) = p IN <<sim[i], i>>]

\* scores[:k], filtered by score >= threshold
SelectedScores(sim, k, th) ==
    SelectSeq(PySlice(SortScores(sim), k), LAMBDA e : e[1] >= th)

\* query_documents: sim[i] is cosine_similarity(query_vec, vecs[i]).  The
\* result is the selected (score, document) pairs; docs[idx] raises
\* IndexError when the vectors outnumber the documents.
query_documents(sim, vecs, ds, k, th) ==
    LET sel == SelectedScores(sim, k, th)
    IN  IF \E p \in 1..Len(sel) : sel[p][2] > Len(ds)
        THEN [error |-> TRUE, selected |-> <<>>]
        ELSE [error |-> FALSE,
              selected |-> [p \in 1..Len(sel) |-> [score |-> sel[p][1], doc |-> ds[sel[p][2]]]]]

\* generate_answer: the answer quotes the first two selected documents, the
\* sources are the URLs of all of them
generate_answer(selected) ==
    IF selected = <<>>
    THEN [answer |-> <<>>, sources |-> <<>>]
    ELSE [answer |-> [p \in 1..Min(2, Len(selected)) |-> selected[p].doc],
          sources |-> [p \in 1..Len(selected) |-> selected[p].doc.url]]

----------------------------------------------------------------------------
(* The background crawler (server.py) *)

\* urlparse(u).netloc: two URLs per domain.  _same_domain(u, domain), a
\* suffix test on the host, is equality of the two domains here.
DomainOf(u) == (u + 1) \div 2

\* URL 0 is "http://": a scheme and no host
BadUrl == 0

\* None
None == 0

\* a domain of the skip list; no page of the model is on it
SKIP_DOMAINS == {0 - 1}

\* batch size of _rebuild_index_if_needed
ReindexBatch == 5

\* the normalised http(s) URLs of the crawled web
CrawlUrls == 1..NumPages

Sessions == 0..MaxSessions
Workers == 1..MaxSessions

\* page texts: a head (the first 5000 characters) and a tail (0: none)
Contents == {[head |-> h, tail |-> t] : h \in 1..NumContents, t \in 0..1}

\* the http(s) links of a page, in document order
LinkLists == UNION {[1..n -> CrawlUrls] : n \in 0..MaxLinks}

\* _crawl_state before the first session.  `appended` is history: the
\* documents the workers have written to the store since the session started.
InitCrawlState ==
    [running |-> FALSE, seeds |-> <<>>, domain |-> None, max_pages |-> 0,
     session |-> 0, added |-> 0, errors |-> 0, last_url |-> None, last_error |-> "none",
     blocked_domains |-> {}, appended |-> {}]

NoResp == [content |-> [head |-> 0, tail |-> 0], links |-> <<>>]

NoWorker ==
    [pc |-> "none", session |-> 0, domain |-> None, max_pages |-> 0, current |-> None,
     additions |-> 0, block_domains |-> {}, retries |-> {}, final |-> FALSE,
     resp |-> NoResp, dataset |-> <<>>, built |-> build_index(<<>>)]

IdleSingle == [pc |-> "idle", url |-> None, content |-> [head |-> 0, tail |-> 0],
               dataset |-> <<>>, built |-> build_index(<<>>), n |-> 0]

NoReader == [read |-> FALSE, nvecs |-> 0, ndocs |-> 0, one_build |-> TRUE]

Alive(w) == worker[w].pc \notin {"none", "dead"}

\* the seed lists a crawl is started with: the first URLs of the web, or the
\* single invalid seed
SeedLists ==
    {[i \in 1..n |-> i] : n \in 1..MaxSeeds} \cup {<<BadUrl>>}

\* _start_crawl without the test of _crawl_state["running"]
start_crawl_NoConflict(op, seeds, max_pages, same_domain) ==
    IF seeds[1] = BadUrl
    THEN /\ response' = [op |-> op, status |-> 400]
         /\ UNCHANGED <<crawlVars>>
    ELSE /\ nstart < MaxSessions
         /\ nstart' = nstart + 1
         /\ crawl_state' = [crawl_state EXCEPT
                !.running = TRUE, !.seeds = seeds,
                !.domain = IF same_domain THEN DomainOf(seeds[1]) ELSE None,
                !.max_pages = max_pages, !.session = nstart + 1,
                !.added = 0, !.errors = 0, !.last_url = None, !.last_error = "none",
                !.appended = {}]
         /\ visited' = [visited EXCEPT ![nstart + 1] = {}]
         /\ queue' = [queue EXCEPT ![nstart + 1] = seeds]
         /\ worker' = [worker EXCEPT ![nstart + 1] = [NoWorker EXCEPT !.pc = "snapshot"]]
         /\ response' = [op |-> op, status |-> 200]
         /\ UNCHANGED <<single, reader, stopped>>

\* _start_crawl, with the status its caller answers.  The first seed is
\* checked before the lock (ValueError, 400); under the lock a running
\* session raises RuntimeError (409); else the session state is replaced, the
\* seeds are queued and a worker thread is started.
start_crawl(op, seeds, max_pages, same_domain) ==
    IF seeds[1] = BadUrl
    THEN /\ response' = [op |-> op, status |-> 400]
         /\ UNCHANGED <<crawlVars>>
    ELSE IF crawl_state.running
    THEN /\ response' = [op |-> op, status |-> 409]
         /\ UNCHANGED <<crawlVars>>
    ELSE /\ nstart < MaxSessions
         /\ nstart' = nstart + 1
         /\ crawl_state' = [crawl_state EXCEPT
                !.running = TRUE, !.seeds = seeds,
                !.domain = IF same_domain THEN DomainOf(seeds[1]) ELSE None,
                !.max_pages = max_pages, !.session = nstart + 1,
                !.added = 0, !.errors = 0, !.last_url = None, !.last_error = "none",
                !.appended = {}]
         /\ visited' = [visited EXCEPT ![nstart + 1] = {}]
         /\ queue' = [queue EXCEPT ![nstart + 1] = seeds]
         /\ worker' = [worker EXCEPT ![nstart + 1] = [NoWorker EXCEPT !.pc = "snapshot"]]
         /\ response' = [op |-> op, status |-> 200]
         /\ UNCHANGED <<single, reader, stopped>>

\* POST /api/crawl_start: no usable seed is 400
api_crawl_start ==
    /\ \E seeds \in SeedLists \cup {<<>>}, max_pages \in 1..MaxPages, same_domain \in BOOLEAN :
         IF seeds = <<>>
         THEN /\ response' = [op |-> "crawl_start", status |-> 400]
              /\ UNCHANGED <<crawlVars>>
         ELSE start_crawl("crawl_start", seeds, max_pages, same_domain)
    /\ UNCHANGED <<thrVars, nreq, nrestart, fnVars, idxVars>>

\* POST /api/search_and_learn: the links a search engine returns for the
\* query are the seeds; no query is 400, no link 424
api_search_and_learn ==
    /\ \E has_query \in BOOLEAN, links \in (SeedLists \ {<<BadUrl>>}) \cup {<<>>},
          max_pages \in 1..MaxPages, same_domain \in BOOLEAN :
         IF ~has_query
         THEN /\ response' = [op |-> "search_and_learn", status |-> 400]
              /\ UNCHANGED <<crawlVars>>
         ELSE IF links = <<>>
         THEN /\ response' = [op |-> "search_and_learn", status |-> 424]
              /\ UNCHANGED <<crawlVars>>
         ELSE start_crawl("search_and_learn", links, max_pages, same_domain)
    /\ UNCHANGED <<thrVars, nreq, nrestart, fnVars, idxVars>>

\* POST /api/crawl_start with max_pages = MaxBudget and usable seeds, the
\* first start request of the process
api_crawl_start_budget ==
    /\ nstart = 0
    /\ \E seeds \in SeedLists \ {<<BadUrl>>}, same_domain \in BOOLEAN :
         start_crawl("crawl_start", seeds, MaxBudget, same_domain)
    /\ UNCHANGED <<thrVars, nreq, nrestart, fnVars, idxVars>>

\* POST /api/crawl_stop
api_crawl_stop ==
    /\ crawl_state' = [crawl_state EXCEPT !.running = FALSE]
    /\ stopped' = stopped \cup {w \in Workers : Alive(w)}
    /\ response' = [op |-> "crawl_stop", status |-> 200]
    /\ UNCHANGED <<thrVars, nreq, nrestart, fnVars, idxVars,
                   visited, queue, worker, nstart, single, reader>>

\* _crawl_worker: "Snapshot config" under the lock
WorkerSnapshot(w) ==
    /\ worker[w].pc = "snapshot"
    /\ worker' = [worker EXCEPT ![w].pc = "loop",
                                ![w].domain = crawl_state.domain,
                                ![w].max_pages = crawl_state.max_pages,
                                ![w].session = crawl_state.session]
    /\ UNCHANGED <<thrVars, response, nreq, nrestart, fnVars, idxVars,
                   crawl_state, visited, queue, nstart, single, reader, stopped>>

\* where the worker goes when it leaves the loop: the final rebuild when
\* additions are pending, else the last `running = False`
LeaveLoop(w) ==
    [worker EXCEPT ![w].final = TRUE,
                   ![w].pc = IF worker[w].additions # 0 THEN "rebuild_docs" ELSE "exit"]

\* the head of the loop, under the lock: stop check, budget check, popleft
WorkerLoop(w) ==
    /\ worker[w].pc = "loop"
    /\ LET n == worker[w].session
       IN  IF ~crawl_state.running
           THEN /\ worker' = LeaveLoop(w)
                /\ UNCHANGED <<crawl_state, queue>>
           ELSE IF queue[n] = <<>> \/ Cardinality(visited[n]) >= worker[w].max_pages
           THEN /\ crawl_state' = [crawl_state EXCEPT !.running = FALSE]
                /\ worker' = LeaveLoop(w)
                /\ UNCHANGED queue
           ELSE /\ queue' = [queue EXCEPT ![n] = Tail(@)]
                /\ crawl_state' = [crawl_state EXCEPT !.last_url = Head(queue[n])]
                /\ worker' = [worker EXCEPT ![w].pc = "visit", ![w].current = Head(queue[n])]
    /\ UNCHANGED <<thrVars, response, nreq, nrestart, fnVars, idxVars,
                   visited, nstart, single, reader, stopped>>

\* `if current in visited: continue`
WorkerVisit(w) ==
    /\ worker[w].pc = "visit"
    /\ IF worker[w].current \in visited[worker[w].session]
       THEN worker' = [worker EXCEPT ![w].pc = "loop"]
       ELSE worker' = [worker EXCEPT ![w].pc = "add"]
    /\ UNCHANGED <<thrVars, response, nreq, nrestart, fnVars, idxVars,
                   crawl_state, visited, queue, nstart, single, reader, stopped>>

\* the same without visited.add(current)
WorkerAdd_NoVisit(w) ==
    /\ worker[w].pc = "add"
    /\ IF DomainOf(worker[w].current) \in SKIP_DOMAINS \cup crawl_state.blocked_domains
       THEN worker' = [worker EXCEPT ![w].pc = "loop"]
       ELSE \E can_fetch \in BOOLEAN :
              IF worker[w].domain # None /\ ~can_fetch
              THEN worker' = [worker EXCEPT ![w].pc = "loop"]
              ELSE worker' = [worker EXCEPT ![w].pc = "fetch"]
    /\ UNCHANGED <<thrVars, response, nreq, nrestart, fnVars, idxVars,
                   crawl_state, visited, queue, nstart, single, reader, stopped>>

\* visited.add(current), the skip list and the blocked domains, the robots
\* check (when a domain is set)
WorkerAdd(w) ==
    /\ worker[w].pc = "add"
    /\ visited' = [visited EXCEPT ![worker[w].session] = @ \cup {worker[w].current}]
    /\ IF DomainOf(worker[w].current) \in SKIP_DOMAINS \cup crawl_state.blocked_domains
       THEN worker' = [worker EXCEPT ![w].pc = "loop"]
       ELSE \E can_fetch \in BOOLEAN :
              IF worker[w].domain # None /\ ~can_fetch
              THEN worker' = [worker EXCEPT ![w].pc = "loop"]
              ELSE worker' = [worker EXCEPT ![w].pc = "fetch"]
    /\ UNCHANGED <<thrVars, response, nreq, nrestart, fnVars, idxVars,
                   crawl_state, queue, nstart, single, reader, stopped>>

\* the response of requests.get(current) and what the worker does with it
\* before it touches the document store:
\*   "429"   retries[current] += 1; at the first, current is appended to
\*           _crawl_state["queue"]; later ones fall to raise_for_status
\*   "403"   the domain is blocked, RequestException
\*   "error" a network error or an error status
\*   "skip"  not text/html, or longer than 3 MB: `continue`
\*   "short" an HTML page with less than 200 characters of text
\*   "ok"    a page with its text and links
WorkerFetch(w) ==
    /\ worker[w].pc = "fetch"
    /\ LET u == worker[w].current
           failed == [crawl_state EXCEPT !.errors = @ + 1, !.last_error = "error"]
       IN  \E status \in {"429", "403", "error", "skip", "short", "ok"}, c \in Contents, ls \in LinkLists :
             /\ status # "ok" => (c = CHOOSE x \in Contents : TRUE) /\ ls = <<>>
             /\ CASE status = "429" ->
                       IF u \notin worker[w].retries
                       THEN /\ worker' = [worker EXCEPT ![w].pc = "loop",
                                                        ![w].retries = @ \cup {u}]
                            /\ queue' = [queue EXCEPT ![crawl_state.session] = Append(@, u)]
                            /\ UNCHANGED crawl_state
                       ELSE /\ worker' = [worker EXCEPT ![w].pc = "loop"]
                            /\ crawl_state' = failed
                            /\ UNCHANGED queue
                  [] status = "403" ->
                       /\ worker' = [worker EXCEPT ![w].pc = "loop",
                                                   ![w].block_domains = @ \cup {DomainOf(u)}]
                       /\ crawl_state' = [failed EXCEPT !.blocked_domains = @ \cup {DomainOf(u)}]
                       /\ UNCHANGED queue
                  [] status = "error" ->
                       /\ worker' = [worker EXCEPT ![w].pc = "loop"]
                       /\ crawl_state' = failed
                       /\ UNCHANGED queue
                  [] status = "skip" ->
                       /\ worker' = [worker EXCEPT ![w].pc = "loop"]
                       /\ UNCHANGED <<crawl_state, queue>>
                  [] status = "short" ->
                       /\ worker' = [worker EXCEPT ![w].pc = "extract"]
                       /\ UNCHANGED <<crawl_state, queue>>
                  [] status = "ok" ->
                       /\ worker' = [worker EXCEPT ![w].pc = "dedup",
                                                   ![w].resp = [content |-> c, links |-> ls]]
                       /\ UNCHANGED <<crawl_state, queue>>
    /\ UNCHANGED <<thrVars, response, nreq, nrestart, fnVars, idxVars,
                   visited, nstart, single, reader, stopped>>

\* _extract_text_from_html and `if len(content) < 200: continue`
WorkerExtract(w) ==
    /\ worker[w].pc = "extract"
    /\ worker' = [worker EXCEPT ![w].pc = "loop"]
    /\ UNCHANGED <<thrVars, response, nreq, nrestart, fnVars, idxVars,
                   crawl_state, visited, queue, nstart, single, reader, stopped>>

\* dataset = _read_dataset() and the test on known_urls and known_hashes:
\* the hash of the whole text against the hashes of the stored contents
WorkerDedup(w) ==
    /\ worker[w].pc = "dedup"
    /\ LET known_urls == {dataset[i].url : i \in 1..Len(dataset)}
           known_hashes == {dataset[i].content : i \in 1..Len(dataset)}
       IN  IF worker[w].current \in known_urls \/ worker[w].resp.content \in known_hashes
           THEN worker' = [worker EXCEPT ![w].pc = "links"]
           ELSE worker' = [worker EXCEPT ![w].pc = "write",
                              ![w].dataset = Append(dataset,
                                                    Doc(worker[w].current, worker[w].resp.content))]
    /\ UNCHANGED <<thrVars, response, nreq, nrestart, fnVars, idxVars,
                   crawl_state, visited, queue, nstart, single, reader, stopped>>

\* _write_dataset(dataset), the two counters, _rebuild_index_if_needed's test
WorkerWrite(w) ==
    /\ worker[w].pc = "write"
    /\ dataset' = worker[w].dataset
    /\ crawl_state' = [crawl_state EXCEPT
           !.added = @ + 1,
           !.appended = @ \cup {worker[w].dataset[Len(worker[w].dataset)]}]
    /\ worker' = [worker EXCEPT ![w].additions = @ + 1, ![w].dataset = <<>>,
                     ![w].pc = IF worker[w].additions + 1 >= ReindexBatch
                               THEN "rebuild_docs" ELSE "links"]
    /\ UNCHANGED <<thrVars, response, nreq, nrestart, fnVars, docs, doc_vecs, idf,
                   visited, queue, nstart, single, reader, stopped>>

\* docs = _read_dataset()
WorkerRebuildDocs(w) ==
    /\ worker[w].pc = "rebuild_docs"
    /\ docs' = dataset
    /\ worker' = [worker EXCEPT ![w].pc = "rebuild_build"]
    /\ UNCHANGED <<thrVars, response, nreq, nrestart, fnVars, dataset, doc_vecs, idf,
                   crawl_state, visited, queue, nstart, single, reader, stopped>>

\* core.build_index(docs): the global docs is loaded and the index computed
WorkerRebuildBuild(w) ==
    /\ worker[w].pc = "rebuild_build"
    /\ worker' = [worker EXCEPT ![w].pc = "rebuild_store", ![w].built = build_index(docs)]
    /\ UNCHANGED <<thrVars, response, nreq, nrestart, fnVars, idxVars,
                   crawl_state, visited, queue, nstart, single, reader, stopped>>

\* doc_vecs, idf = ...: the stores; a batch rebuild resets the counter and
\* goes on with the links, the final one leaves
WorkerRebuildStore(w) ==
    /\ worker[w].pc = "rebuild_store"
    /\ doc_vecs' = worker[w].built.vectors
    /\ idf' = worker[w].built.idf
    /\ worker' = [worker EXCEPT ![w].built = build_index(<<>>),
                     ![w].additions = IF worker[w].final THEN @ ELSE 0,
                     ![w].pc = IF worker[w].final THEN "exit" ELSE "links"]
    /\ UNCHANGED <<thrVars, response, nreq, nrestart, fnVars, dataset, docs,
                   crawl_state, visited, queue, nstart, single, reader, stopped>>

\* one <a href> of the page: kept when it is on the crawl's domain, not on a
\* blocked or skipped domain and not visited; then queue.append under the
\* lock.  The tests and the append of one link are one step.
WorkerLink(w) ==
    /\ worker[w].pc = "links"
    /\ LET n == worker[w].session
           ls == worker[w].resp.links
       IN  IF ls = <<>>
           THEN /\ worker' = [worker EXCEPT ![w].pc = "loop", ![w].resp = NoResp]
                /\ UNCHANGED queue
           ELSE /\ worker' = [worker EXCEPT ![w].resp.links = Tail(ls)]
                /\ IF /\ worker[w].domain # None => DomainOf(ls[1]) = worker[w].domain
                      /\ DomainOf(ls[1]) \notin worker[w].block_domains \cup SKIP_DOMAINS
                                                   \cup crawl_state.blocked_domains
                      /\ ls[1] \notin visited[n]
                   THEN queue' = [queue EXCEPT ![n] = Append(@, ls[1])]
                   ELSE UNCHANGED queue
    /\ UNCHANGED <<thrVars, response, nreq, nrestart, fnVars, idxVars,
                   crawl_state, visited, nstart, single, reader, stopped>>

\* the outer finally: _crawl_state["running"] = False, and the thread ends
WorkerExit(w) ==
    /\ worker[w].pc = "exit"
    /\ crawl_state' = [crawl_state EXCEPT !.running = FALSE]
    /\ worker' = [worker EXCEPT ![w] = [NoWorker EXCEPT !.pc = "dead"]]
    /\ stopped' = stopped \ {w}
    /\ UNCHANGED <<thrVars, response, nreq, nrestart, fnVars, idxVars,
                   visited, queue, nstart, single, reader>>

\* the text api_crawl stores for a page without text
Placeholder == [head |-> 0, tail |-> 0]

\* api_crawl up to the response of requests.get: a missing or invalid URL is
\* 400, a failed request 502
SingleFetch ==
    /\ single.pc = "idle"
    /\ single.n < MaxSingle
    /\ \E u \in CrawlUrls \cup {BadUrl}, ok \in BOOLEAN, c \in Contents \cup {Placeholder} :
         IF u = BadUrl
         THEN /\ response' = [op |-> "crawl", status |-> 400]
              /\ single' = [single EXCEPT !.n = @ + 1]
         ELSE IF ~ok
         THEN /\ response' = [op |-> "crawl", status |-> 502]
              /\ single' = [single EXCEPT !.n = @ + 1]
         ELSE /\ single' = [single EXCEPT !.pc = "read", !.url = u, !.content = c, !.n = @ + 1]
              /\ UNCHANGED response
    /\ UNCHANGED <<thrVars, nreq, nrestart, fnVars, idxVars,
                   crawl_state, visited, queue, worker, nstart, reader, stopped>>

\* dataset = json.load(f); dataset.append(new_doc)
SingleRead ==
    /\ single.pc = "read"
    /\ single' = [single EXCEPT !.pc = "write",
                     !.dataset = Append(dataset, Doc(single.url, single.content))]
    /\ UNCHANGED <<thrVars, response, nreq, nrestart, fnVars, idxVars,
                   crawl_state, visited, queue, worker, nstart, reader, stopped>>

\* json.dump(dataset, f)
SingleWrite ==
    /\ single.pc = "write"
    /\ dataset' = single.dataset
    /\ single' = [single EXCEPT !.pc = "docs"]
    /\ UNCHANGED <<thrVars, response, nreq, nrestart, fnVars, docs, doc_vecs, idf,
                   crawl_state, visited, queue, worker, nstart, reader, stopped>>

\* docs = dataset
SingleDocs ==
    /\ single.pc = "docs"
    /\ docs' = single.dataset
    /\ single' = [single EXCEPT !.pc = "build", !.dataset = <<>>]
    /\ UNCHANGED <<thrVars, response, nreq, nrestart, fnVars, dataset, doc_vecs, idf,
                   crawl_state, visited, queue, worker, nstart, reader, stopped>>

\* core.build_index(docs)
SingleBuild ==
    /\ single.pc = "build"
    /\ single' = [single EXCEPT !.pc = "store", !.built = build_index(docs)]
    /\ UNCHANGED <<thrVars, response, nreq, nrestart, fnVars, idxVars,
                   crawl_state, visited, queue, worker, nstart, reader, stopped>>

\* doc_vecs, idf = ... and the response
SingleStore ==
    /\ single.pc = "store"
    /\ doc_vecs' = single.built.vectors
    /\ idf' = single.built.idf
    /\ single' = [IdleSingle EXCEPT !.n = single.n]
    /\ response' = [op |-> "crawl", status |-> 200]
    /\ UNCHANGED <<thrVars, nreq, nrestart, fnVars, dataset, docs,
                   crawl_state, visited, queue, worker, nstart, reader, stopped>>

\* a request thread loads doc_vecs, idf and docs for core.query_documents
\* (search, api_ask): what it got
SearchRead ==
    /\ reader' = [read |-> TRUE, nvecs |-> Len(doc_vecs), ndocs |-> Len(docs),
                  one_build |-> doc_vecs = build_index(docs).vectors
                                /\ idf = build_index(docs).idf]
    /\ UNCHANGED <<thrVars, response, nreq, nrestart, fnVars, idxVars,
                   crawl_state, visited, queue, worker, nstart, single, stopped>>

----------------------------------------------------------------------------
(* The threshold controller *)

\* Strategy.adjust_threshold
adjust_threshold(current, success) ==
    Round6(IF success
           THEN Max(threshold_min, current - step_success)
           ELSE Min(threshold_max, current + step_fail))

\* api_ask's update without the max(0.05, ...) of the success branch
AskAdjustNoFloor(t, success) ==
    IF success THEN t - AskStep ELSE Min(AskMax, t + AskStep)

\* the update of api_ask (and of main.main)
AskAdjust(t, success) ==
    IF success THEN Max(AskMin, t - AskStep) ELSE Min(AskMax, t + AskStep)

\* the update of api_evolve
EvolveAdjust(t) == Max(AskMin, t - EvolveStep)

\* _get_last_threshold over the content of logs.json
GetLastThreshold(logs) ==
    IF logs # <<>> THEN logs[Len(logs)].threshold ELSE DefaultThreshold

Threads == 1..MaxThreads

IdleAsk == [pc |-> "idle", success |-> FALSE, t |-> 0, logs |-> <<>>]
IdleEvolve == [pc |-> "idle", old |-> 0, t |-> 0]

Respond(op, status) ==
    /\ response' = [op |-> op, status |-> status]
    /\ nreq' = nreq + 1

\* api_ask that handles an empty question as a failed answer
AskEmpty_Adjusts(r) ==
    /\ ask[r].pc = "idle"
    /\ nreq < MaxRequests
    /\ Respond("ask", 400)
    /\ threshold' = AskAdjust(threshold, FALSE)
    /\ UNCHANGED <<log_file, ask, evolve, hist, nrestart, fnVars, idxVars, crawlVars>>

\* api_ask with an empty question: 400, nothing else
AskEmpty(r) ==
    /\ ask[r].pc = "idle"
    /\ nreq < MaxRequests
    /\ Respond("ask", 400)
    /\ UNCHANGED <<thrVars, nrestart, fnVars, idxVars, crawlVars>>

\* api_ask up to `success = len(sources) >= 2`
AskQuery(r) ==
    /\ ask[r].pc = "idle"
    /\ nreq < MaxRequests
    /\ \E sim \in [1..Len(doc_vecs) -> ScoreValues] :
         LET res == query_documents(sim, doc_vecs, docs, top_k, threshold)
             out == generate_answer(res.selected)
         IN  IF res.error
             THEN /\ Respond("ask", 500)
                  /\ UNCHANGED ask
             ELSE /\ ask' = [ask EXCEPT ![r] = [IdleAsk EXCEPT !.pc = "load",
                                                 !.success = Len(out.sources) >= 2]]
                  /\ nreq' = nreq + 1
                  /\ UNCHANGED response
    /\ UNCHANGED <<threshold, log_file, evolve, hist, nrestart, fnVars, idxVars, crawlVars>>

\* `threshold - 0.02` / `threshold + 0.02`: the load of the global
AskLoad(r) ==
    /\ ask[r].pc = "load"
    /\ ask' = [ask EXCEPT ![r].pc = "store", ![r].t = threshold]
    /\ UNCHANGED <<threshold, log_file, evolve, hist, response, nreq, nrestart, fnVars, idxVars, crawlVars>>

\* `threshold = max(...)` / `threshold = min(...)`: the store to the global
AskStore(r) ==
    /\ ask[r].pc = "store"
    /\ threshold' = AskAdjust(ask[r].t, ask[r].success)
    /\ hist' = IF ask[r].success THEN [hist EXCEPT !.s = @ + 1] ELSE [hist EXCEPT !.f = @ + 1]
    /\ ask' = [ask EXCEPT ![r].pc = "log_load"]
    /\ UNCHANGED <<log_file, evolve, response, nreq, nrestart, fnVars, idxVars, crawlVars>>

\* logs = _load_logs()
AskLogLoad(r) ==
    /\ ask[r].pc = "log_load"
    /\ ask' = [ask EXCEPT ![r].pc = "log_append", ![r].logs = log_file]
    /\ UNCHANGED <<threshold, log_file, evolve, hist, response, nreq, nrestart, fnVars, idxVars, crawlVars>>

\* logs.append({..., "success": success, "threshold": threshold})
AskLogAppend(r) ==
    /\ ask[r].pc = "log_append"
    /\ ask' = [ask EXCEPT ![r].pc = "log_save",
                          ![r].logs = Append(@, [success |-> ask[r].success,
                                                 threshold |-> threshold])]
    /\ UNCHANGED <<threshold, log_file, evolve, hist, response, nreq, nrestart, fnVars, idxVars, crawlVars>>

\* _save_logs(logs) and the response
AskLogSave(r) ==
    /\ ask[r].pc = "log_save"
    /\ log_file' = ask[r].logs
    /\ ask' = [ask EXCEPT ![r] = IdleAsk]
    /\ response' = [op |-> "ask", status |-> 200]
    /\ UNCHANGED <<threshold, evolve, hist, nreq, nrestart, fnVars, idxVars, crawlVars>>

\* api_evolve: old = threshold
EvolveBegin ==
    /\ evolve.pc = "idle"
    /\ nreq < MaxRequests
    /\ nreq' = nreq + 1
    /\ evolve' = [IdleEvolve EXCEPT !.pc = "load", !.old = threshold]
    /\ UNCHANGED <<threshold, log_file, ask, hist, response, nrestart, fnVars, idxVars, crawlVars>>

\* api_evolve: the load in `threshold - 0.01`
EvolveLoad ==
    /\ evolve.pc = "load"
    /\ evolve' = [evolve EXCEPT !.pc = "store", !.t = threshold]
    /\ UNCHANGED <<threshold, log_file, ask, hist, response, nreq, nrestart, fnVars, idxVars, crawlVars>>

\* api_evolve: the store and the response
EvolveStore ==
    /\ evolve.pc = "store"
    /\ threshold' = EvolveAdjust(evolve.t)
    /\ hist' = [hist EXCEPT !.e = @ + 1]
    /\ evolve' = IdleEvolve
    /\ response' = [op |-> "evolve", status |-> 200]
    /\ UNCHANGED <<log_file, ask, nreq, nrestart, fnVars, idxVars, crawlVars>>

\* The process is stopped and started again: the request threads are gone,
\* logs.json and dummy_data.json are kept, and the module body runs again
\* (docs, the index, threshold = _get_last_threshold()).
Restart ==
    /\ nrestart < MaxRestarts
    /\ nrestart' = nrestart + 1
    /\ threshold' = GetLastThreshold(log_file)
    /\ hist' = [base |-> GetLastThreshold(log_file), s |-> 0, f |-> 0, e |-> 0]
    /\ ask' = [r \in Threads |-> IdleAsk]
    /\ evolve' = IdleEvolve
    /\ docs' = dataset
    /\ doc_vecs' = build_index(dataset).vectors
    /\ idf' = build_index(dataset).idf
    /\ crawl_state' = InitCrawlState
    /\ visited' = [n \in Sessions |-> {}]
    /\ queue' = [n \in Sessions |-> <<>>]
    /\ worker' = [w \in Workers |-> NoWorker]
    /\ single' = IdleSingle
    /\ reader' = NoReader
    /\ stopped' = {}
    /\ UNCHANGED <<log_file, response, nreq, fnVars, dataset, nstart>>

----------------------------------------------------------------------------
(* The interactive process: main() of main.py *)

OffCli == [pc |-> "off", threshold |-> 0, logs |-> <<>>, runs |-> 0, queries |-> 0]

\* the process is started: `threshold = 0.1`, `logs = load_logs()`
CliStart ==
    /\ cli.pc = "off"
    /\ cli.runs < MaxCliRuns
    /\ cli' = [pc |-> "prompt", threshold |-> CliThreshold, logs |-> log_file,
               runs |-> cli.runs + 1, queries |-> 0]
    /\ UNCHANGED <<thrVars, response, nreq, nrestart, adjust, query, search,
                   idxVars, crawlVars>>

\* one question: the answer and its sources, the evaluation, the update of
\* the threshold, the log entry and save_logs(logs)
CliQuery ==
    /\ cli.pc = "prompt"
    /\ cli.queries < MaxCliQueries
    /\ \E success \in BOOLEAN :
         LET t == IF success THEN Max(CliMin, cli.threshold - CliStep)
                             ELSE Min(CliMax, cli.threshold + CliStep)
             logs == Append(cli.logs, [success |-> success, threshold |-> t])
         IN  /\ cli' = [cli EXCEPT !.threshold = t, !.logs = logs, !.queries = @ + 1]
             /\ log_file' = logs
    /\ UNCHANGED <<threshold, ask, evolve, hist, response, nreq, nrestart,
                   adjust, query, search, idxVars, crawlVars>>

\* "quit", "exit" or end of input: the process ends
CliQuit ==
    /\ cli.pc = "prompt"
    /\ cli' = [OffCli EXCEPT !.runs = cli.runs]
    /\ UNCHANGED <<thrVars, response, nreq, nrestart, adjust, query, search,
                   idxVars, crawlVars>>

----------------------------------------------------------------------------
(* One adjustment of the threshold from any starting value *)

CurrentValues == {k * CurrentGrain : k \in (0 - MaxCurrent)..MaxCurrent}

\* strategy.adjust_threshold(current, success)
CallAdjustThreshold ==
    /\ adjust.pc = "call"
    /\ adjust' = [adjust EXCEPT !.pc = "done", !.via = "strategy",
                                !.result = adjust_threshold(adjust.current, adjust.success)]
    /\ UNCHANGED <<thrVars, response, nreq, nrestart, query, search, cli, idxVars, crawlVars>>

\* the update of api_ask on a threshold reloaded from logs.json
CallAskAdjust ==
    /\ adjust.pc = "call"
    /\ adjust' = [adjust EXCEPT !.pc = "done", !.via = "api_ask",
                                !.result = AskAdjust(adjust.current, adjust.success)]
    /\ UNCHANGED <<thrVars, response, nreq, nrestart, query, search, cli, idxVars, crawlVars>>

\* the thresholds a process can hold: 0.05, 0.06, ... 0.5 (api_ask moves by
\* 0.02 and api_evolve by 0.01 within the two limits)
StartValues == {AskMin + k * EvolveStep : k \in 0..((AskMax - AskMin) \div EvolveStep)}

\* one more answered interaction of a run handled by api_ask alone: the
\* threshold after the interaction before is the one it starts from
RunAskAdjust ==
    /\ adjust.pc = "run"
    /\ adjust.via \in {"none", "api_ask"}
    /\ adjust.s + adjust.f < MaxSteps
    /\ \E success \in BOOLEAN :
         adjust' = [adjust EXCEPT !.via = "api_ask", !.success = success,
                                  !.current = adjust.result,
                                  !.result = AskAdjust(adjust.result, success),
                                  !.s = IF success THEN @ + 1 ELSE @,
                                  !.f = IF success THEN @ ELSE @ + 1]
    /\ UNCHANGED <<thrVars, response, nreq, nrestart, query, search, cli, idxVars, crawlVars>>

\* the same for a run handled by strategy.adjust_threshold
RunAdjustThreshold ==
    /\ adjust.pc = "run"
    /\ adjust.via \in {"none", "strategy"}
    /\ adjust.s + adjust.f < MaxSteps
    /\ \E success \in BOOLEAN :
         adjust' = [adjust EXCEPT !.via = "strategy", !.success = success,
                                  !.current = adjust.result,
                                  !.result = adjust_threshold(adjust.result, success),
                                  !.s = IF success THEN @ + 1 ELSE @,
                                  !.f = IF success THEN @ ELSE @ + 1]
    /\ UNCHANGED <<thrVars, response, nreq, nrestart, query, search, cli, idxVars, crawlVars>>

----------------------------------------------------------------------------
(* One call of query_documents, as GET /search makes it *)

\* k = int(request.args.get("k") or 5), 5 on ValueError: the argument is
\* missing or empty, not an integer, or an integer
NoArg == [given |-> FALSE, int |-> FALSE, val |-> 0]
BadArg == [given |-> TRUE, int |-> FALSE, val |-> 0]
IntArg(n) == [given |-> TRUE, int |-> TRUE, val |-> n]

SearchK(arg) ==
    IF ~arg.given THEN SearchDefaultK
    ELSE IF ~arg.int THEN SearchDefaultK
    ELSE arg.val

KArgs == {NoArg, BadArg} \cup {IntArg(n) : n \in (0 - MaxK)..MaxK}

\* the similarities of a question with 0..MaxIndexed indexed documents
SimLists == UNION {[1..n -> ScoreValues] : n \in 0..MaxIndexed}

\* the thresholds a call is made with
QueryThresholds == {AskMin, DefaultThreshold, AskMax}

\* an index of n documents
IndexedDocs(n) == [i \in 1..n |-> Doc(i, [head |-> i, tail |-> 0])]

\* search(): core.query_documents(q, doc_vecs, idf, docs, k=k, threshold=threshold)
CallQueryDocuments ==
    /\ query.pc = "call"
    /\ LET ds == IndexedDocs(Len(query.sim))
       IN  query' = [query EXCEPT !.pc = "done",
                        !.k = SearchK(query.arg),
                        !.result = query_documents(query.sim, build_index(ds).vectors, ds,
                                                   SearchK(query.arg), query.th)]
    /\ UNCHANGED <<thrVars, response, nreq, nrestart, adjust, search, cli, idxVars, crawlVars>>

\* the stores the ingestion paths produce: up to MaxIndexed documents of two
\* URLs and two texts; /api/crawl appends a URL the store already holds
EvalStores ==
    UNION {[1..n -> {Doc(u, [head |-> c, tail |-> 0]) : u \in 1..2, c \in 1..2}] :
             n \in 0..MaxIndexed}

\* api_ask from query_documents to `success = len(sources) >= 2`
CallAskEvaluate ==
    /\ query.pc = "ask"
    /\ LET res == query_documents(query.sim, build_index(query.docs).vectors, query.docs,
                                  top_k, query.th)
           out == generate_answer(res.selected)
       IN  query' = [query EXCEPT !.pc = "answered", !.k = top_k, !.result = res,
                                  !.sources = out.sources,
                                  !.success = Len(out.sources) >= 2]
    /\ UNCHANGED <<thrVars, response, nreq, nrestart, adjust, search, cli, idxVars, crawlVars>>

----------------------------------------------------------------------------
(* The answer composer (core/search.py) *)

\* A text is a sequence of paragraphs.  A paragraph carries a body and, when
\* title and url are not 0, the marker [title](url) the citation pattern
\* matches (url 0: not an http(s) URL; title 0: no title).
Para(body, title, url) == [body |-> body, title |-> title, url |-> url]

Sentinel == <<Para([kind |-> "Je ne sais pas"], 0, 0)>>

Passage(title, url, content, score) ==
    [title |-> title, url |-> url, content |-> content, score |-> score]

Cite(p) == [title |-> p.title, url |-> p.url]

\* _fallback_search: the TF-IDF passages of the documents ds, sim[i] being
\* _cosine(qv, vectors[i]); a score <= 0.0 is skipped
FallbackSearch(sim, ds, k) ==
    LET top == PySlice(SortScores(sim), k)
        kept == SelectSeq(top, LAMBDA e : ~(e[1] <= 0))
    IN  [p \in 1..Len(kept) |->
            LET d == ds[kept[p][2]]
            IN  Passage(d.url, d.url, d.content.head, kept[p][1])]

\* _pgvector_search: None when psycopg is missing, DATABASE_URL is not set,
\* the query has no embedding or the database query raises; else the rows
pgvector_search(backend) ==
    IF backend.state = "rows"
    THEN [none |-> FALSE, passages |-> backend.rows]
    ELSE [none |-> TRUE, passages |-> <<>>]

\* retrieve_passages with `if pg:` for `if pg is not None:`
retrieve_passages_Truthy(pg, sim, ds, k) ==
    IF pg.passages # <<>> THEN pg.passages ELSE FallbackSearch(sim, ds, k)

\* retrieve_passages: the vector backend's passages unless it answered None
retrieve_passages(pg, sim, ds, k) ==
    IF ~pg.none THEN pg.passages ELSE FallbackSearch(sim, ds, k)

RECURSIVE SumScores(_)
SumScores(ps) == IF ps = <<>> THEN 0 ELSE ps[1].score + SumScores(Tail(ps))

\* max(0.0, min(1.0, mean_score)) as the fraction <<numerator, denominator>>
Confidence(ps) ==
    LET n == Max(1, Len(ps))
        sum == SumScores(ps)
    IN  IF sum < 0 THEN <<0, 1>> ELSE IF sum > One * n THEN <<One, 1>> ELSE <<sum, n>>

\* confidence < threshold
BelowThreshold(c, th) == c[1] < th * c[2]

\* round(confidence, 3): the nearest multiple of 1e-3, a tie to the even one
Round3(c) ==
    LET m == 10000 * c[2]
        q == c[1] \div m
        r == c[1] % m
    IN  IF 2 * r < m THEN q * 10000
        ELSE IF 2 * r > m THEN (q + 1) * 10000
        ELSE IF q % 2 = 0 THEN q * 10000 ELSE (q + 1) * 10000

\* the deterministic answer raises AttributeError at p.content.strip() when
\* one of passages[:3] has no content (documents.content is a nullable column)
FallbackRaises(ps) == \E i \in 1..Min(3, Len(ps)) : ps[i].content = None

\* the deterministic answer: one paragraph for each of passages[:3]
FallbackAnswer(ps) ==
    [i \in 1..Min(3, Len(ps)) |->
        Para([kind |-> "snippet", of |-> ps[i].content], ps[i].title, ps[i].url)]

RECURSIVE DedupCites(_, _)
DedupCites(cs, seen) ==
    IF cs = <<>> THEN <<>>
    ELSE IF cs[1] \in seen THEN DedupCites(Tail(cs), seen)
    ELSE <<cs[1]>> \o DedupCites(Tail(cs), seen \cup {cs[1]})

\* _extract_citations: the markers of the text, the first of each (title, url)
ExtractCitations(text) ==
    LET marked == SelectSeq(text, LAMBDA para : para.title # 0 /\ para.url # 0)
    IN  DedupCites([i \in 1..Len(marked) |-> Cite(marked[i])], {})

PassageCites(ps) == [i \in 1..Len(ps) |-> Cite(ps[i])]

\* search_answer without the early return on no passages
search_answer_NoEarlyReturn(ps, th, llm) ==
    IF BelowThreshold(Confidence(ps), th)
    THEN [answer |-> Sentinel, citations |-> PassageCites(ps),
          confidence |-> Round3(Confidence(ps)), llm_called |-> FALSE]
    ELSE LET answer == IF llm.none \/ llm.text = <<>> THEN FallbackAnswer(ps) ELSE llm.text
             cites == ExtractCitations(answer)
         IN  [answer |-> answer,
              citations |-> IF cites = <<>> THEN PassageCites(ps) ELSE cites,
              confidence |-> Round3(Confidence(ps)), llm_called |-> TRUE]

\* search_answer without the confidence gate
search_answer_NoGate(ps, th, llm) ==
    IF ps = <<>>
    THEN [answer |-> Sentinel, citations |-> <<>>, confidence |-> 0, llm_called |-> FALSE]
    ELSE LET answer == IF llm.none \/ llm.text = <<>> THEN FallbackAnswer(ps) ELSE llm.text
             cites == ExtractCitations(answer)
         IN  [answer |-> answer,
              citations |-> IF cites = <<>> THEN PassageCites(ps) ELSE cites,
              confidence |-> Round3(Confidence(ps)), llm_called |-> TRUE]

\* search_answer without `if not citations:`
search_answer_NoCiteFallback(ps, th, llm) ==
    IF ps = <<>>
    THEN [answer |-> Sentinel, citations |-> <<>>, confidence |-> 0, llm_called |-> FALSE]
    ELSE IF BelowThreshold(Confidence(ps), th)
    THEN [answer |-> Sentinel, citations |-> PassageCites(ps),
          confidence |-> Round3(Confidence(ps)), llm_called |-> FALSE]
    ELSE LET answer == IF llm.none \/ llm.text = <<>> THEN FallbackAnswer(ps) ELSE llm.text
         IN  [answer |-> answer, citations |-> ExtractCitations(answer),
              confidence |-> Round3(Confidence(ps)), llm_called |-> TRUE]

\* search_answer after retrieval: ps the passages, th the confidence
\* threshold, llm what _call_llm returns when it is called
search_answer(ps, th, llm) ==
    IF ps = <<>>
    THEN [answer |-> Sentinel, citations |-> <<>>, confidence |-> 0, llm_called |-> FALSE]
    ELSE IF BelowThreshold(Confidence(ps), th)
    THEN [answer |-> Sentinel, citations |-> PassageCites(ps),
          confidence |-> Round3(Confidence(ps)), llm_called |-> FALSE]
    ELSE LET answer == IF llm.none \/ llm.text = <<>> THEN FallbackAnswer(ps) ELSE llm.text
             cites == ExtractCitations(answer)
         IN  [answer |-> answer,
              citations |-> IF cites = <<>> THEN PassageCites(ps) ELSE cites,
              confidence |-> Round3(Confidence(ps)), llm_called |-> TRUE]

\* what the vector backend may return: None, or up to MaxPassages rows
PassageValues ==
    {Passage(t, u, IF text THEN u ELSE None, sc) :
        t \in 1..2, u \in 1..2, text \in BOOLEAN, sc \in {0 - 5000000, 2000000, 9000000}}

\* a ranked result of more than MaxPassages rows: distinct documents, the
\* scores descending from the first
RankedRows ==
    {[i \in 1..n |-> Passage(i, i, i, 9000000 - 1000000 * i)] : n \in (MaxPassages + 1)..MaxRanked}

Backends ==
    {[state |-> st, rows |-> <<>>] :
        st \in {"no_driver", "no_url", "no_embedding", "query_error"}}
    \cup {[state |-> "rows", rows |-> ps] :
            ps \in UNION {[1..n -> PassageValues] : n \in 0..MaxPassages} \cup RankedRows}

\* what _call_llm may return: None (no key, or the call failed), an empty
\* text, a text without a marker, texts with markers
LlmReplies ==
    {[none |-> TRUE, text |-> <<>>],
     [none |-> FALSE, text |-> <<>>],
     [none |-> FALSE, text |-> <<Para([kind |-> "llm"], 0, 0)>>],
     [none |-> FALSE, text |-> <<Para([kind |-> "llm"], 1, 1)>>],
     [none |-> FALSE, text |-> <<Para([kind |-> "llm"], 1, 1), Para([kind |-> "llm"], 1, 1),
                                 Para([kind |-> "llm"], 2, 1)>>]}

\* the similarities of a question with the documents of the store
FallbackSims == [1..NumSeedDocs -> {0, 3000000}]

\* search_answer(query).  _fallback_search builds its index from
\* dummy_data.json at its first call, with no handler around the read: when
\* the file cannot be read the exception leaves search_answer ("raised").
\* So does the exception of the deterministic answer ("failed").
CallSearchAnswer ==
    /\ search.pc = "call"
    /\ LET pg == pgvector_search(search.backend)
           ps == retrieve_passages(pg, search.sim, dataset, search.top_k)
       IN  IF pg.none /\ search.store = "unreadable"
           THEN search' = [search EXCEPT !.pc = "raised", !.pg = pg]
           ELSE IF /\ ps # <<>>
                   /\ ~BelowThreshold(Confidence(ps), search.th)
                   /\ search.llm.none \/ search.llm.text = <<>>
                   /\ FallbackRaises(ps)
           THEN search' = [search EXCEPT !.pc = "failed", !.pg = pg, !.passages = ps]
           ELSE search' = [search EXCEPT !.pc = "done", !.pg = pg, !.passages = ps,
                              !.result = search_answer(ps, search.th, search.llm)]
    /\ UNCHANGED <<thrVars, response, nreq, nrestart, adjust, query, cli, idxVars, crawlVars>>

----------------------------------------------------------------------------
(* Initial states and specifications *)

InitIndex(ds) ==
    /\ dataset = ds
    /\ docs = ds
    /\ doc_vecs = build_index(ds).vectors
    /\ idf = build_index(ds).idf

InitController ==
    /\ threshold = GetLastThreshold(<<>>)
    /\ log_file = <<>>
    /\ ask = [r \in Threads |-> IdleAsk]
    /\ evolve = IdleEvolve
    /\ response = [op |-> "none", status |-> 0]
    /\ nreq = 0
    /\ nrestart = 0
    /\ cli = OffCli
    /\ hist = [base |-> GetLastThreshold(<<>>), s |-> 0, f |-> 0, e |-> 0]
    /\ crawl_state = InitCrawlState
    /\ visited = [n \in Sessions |-> {}]
    /\ queue = [n \in Sessions |-> <<>>]
    /\ worker = [w \in Workers |-> NoWorker]
    /\ nstart = 0
    /\ single = IdleSingle
    /\ reader = NoReader
    /\ stopped = {}

IdleAdjust == [pc |-> "idle", via |-> "none", current |-> 0, success |-> FALSE, result |-> 0,
               start |-> 0, s |-> 0, f |-> 0]
IdleQuery == [pc |-> "idle", sim |-> <<>>, arg |-> NoArg, k |-> 0, th |-> 0,
              result |-> [error |-> FALSE, selected |-> <<>>],
              docs |-> <<>>, sources |-> <<>>, success |-> FALSE]
NoAnswer == [answer |-> <<>>, citations |-> <<>>, confidence |-> 0, llm_called |-> FALSE]
IdleSearch == [pc |-> "idle", backend |-> [state |-> "no_driver", rows |-> <<>>],
               store |-> "ok", pg |-> [none |-> TRUE, passages |-> <<>>], sim |-> <<>>,
               top_k |-> 0, th |-> 0, llm |-> [none |-> TRUE, text |-> <<>>],
               passages |-> <<>>, result |-> NoAnswer]

\* a fresh process over the seeded store, with an empty interaction log
Init ==
    /\ InitController
    /\ InitIndex(SeedDataset)
    /\ adjust = IdleAdjust
    /\ query = IdleQuery
    /\ search = IdleSearch

Next ==
    \/ \E r \in Threads : AskEmpty(r)
    \/ \E r \in Threads : AskQuery(r)
    \/ \E r \in Threads : AskLoad(r)
    \/ \E r \in Threads : AskStore(r)
    \/ \E r \in Threads : AskLogLoad(r)
    \/ \E r \in Threads : AskLogAppend(r)
    \/ \E r \in Threads : AskLogSave(r)
    \/ EvolveBegin
    \/ EvolveLoad
    \/ EvolveStore
    \/ Restart

Spec == Init /\ [][Next]_vars

\* the two entry points: runs of the interactive process and starts of the
\* server over the same logs.json
NextCli ==
    \/ CliStart
    \/ CliQuery
    \/ CliQuit
    \/ Restart

SpecCli == Init /\ [][NextCli]_vars

\* one adjustment, from every starting value and for either outcome
InitAdjust ==
    /\ InitController
    /\ InitIndex(SeedDataset)
    /\ adjust \in {[IdleAdjust EXCEPT !.pc = "call", !.current = c, !.success = b] :
                     c \in CurrentValues, b \in BOOLEAN}
    /\ query = IdleQuery
    /\ search = IdleSearch

NextAdjust ==
    \/ CallAdjustThreshold
    \/ CallAskAdjust

SpecAdjust == InitAdjust /\ [][NextAdjust]_vars

\* runs of up to MaxSteps answered interactions, one after another, from
\* every threshold a process can hold
InitRun ==
    /\ InitController
    /\ InitIndex(SeedDataset)
    /\ adjust \in {[IdleAdjust EXCEPT !.pc = "run", !.start = t, !.current = t, !.result = t] :
                     t \in StartValues}
    /\ query = IdleQuery
    /\ search = IdleSearch

NextRun ==
    \/ RunAskAdjust
    \/ RunAdjustThreshold

SpecRun == InitRun /\ [][NextRun]_vars

\* one call of query_documents, for every question, k and threshold
InitQuery ==
    /\ InitController
    /\ InitIndex(SeedDataset)
    /\ adjust = IdleAdjust
    /\ query \in {[IdleQuery EXCEPT !.pc = "call", !.sim = sim, !.arg = a, !.th = th] :
                    sim \in SimLists, a \in KArgs, th \in QueryThresholds}
    /\ search = IdleSearch

NextQuery == CallQueryDocuments

SpecQuery == InitQuery /\ [][NextQuery]_vars

\* the evaluation of one answered question, for every store, question and
\* threshold
InitEval ==
    /\ InitController
    /\ InitIndex(SeedDataset)
    /\ adjust = IdleAdjust
    /\ query \in {[IdleQuery EXCEPT !.pc = "ask", !.docs = ds, !.sim = sim, !.th = th] :
                    ds \in EvalStores, sim \in SimLists, th \in QueryThresholds}
    /\ Len(query.sim) = Len(query.docs)
    /\ search = IdleSearch

NextEval == CallAskEvaluate

SpecEval == InitEval /\ [][NextEval]_vars

\* one call of search_answer, for every retrieval result and backend reply
InitSearch ==
    /\ InitController
    /\ InitIndex(SeedDataset)
    /\ adjust = IdleAdjust
    /\ query = IdleQuery
    /\ search \in {[IdleSearch EXCEPT !.pc = "call", !.backend = b, !.store = st, !.sim = sim,
                                      !.top_k = k, !.th = th, !.llm = llm] :
                     b \in Backends, st \in {"ok", "unreadable"}, sim \in FallbackSims,
                     k \in {1, RetrievalTopK},
                     th \in {0, ConfidenceThreshold, 9500000}, llm \in LlmReplies}
    /\ search.backend.rows = <<>> \/ search.sim = [i \in 1..NumSeedDocs |-> 0]
    /\ Len(search.backend.rows) <= search.top_k

NextSearch == CallSearchAnswer

SpecSearch == InitSearch /\ [][NextSearch]_vars

\* a fresh process over an empty store ("[]"), crawling
InitCrawl ==
    /\ InitController
    /\ InitIndex(<<>>)
    /\ adjust = IdleAdjust
    /\ query = IdleQuery
    /\ search = IdleSearch

WorkerStep ==
    \E w \in Workers :
        \/ WorkerSnapshot(w)
        \/ WorkerLoop(w)
        \/ WorkerVisit(w)
        \/ WorkerAdd(w)
        \/ WorkerFetch(w)
        \/ WorkerExtract(w)
        \/ WorkerDedup(w)
        \/ WorkerWrite(w)
        \/ WorkerRebuildDocs(w)
        \/ WorkerRebuildBuild(w)
        \/ WorkerRebuildStore(w)
        \/ WorkerLink(w)
        \/ WorkerExit(w)

\* crawl sessions started and stopped while their workers run
NextCrawl ==
    \/ api_crawl_start
    \/ api_crawl_stop
    \/ WorkerStep

SpecCrawl == InitCrawl /\ [][NextCrawl]_vars

\* the writers of the in-memory index (the worker of a first crawl session,
\* /api/crawl) and a request that reads it
NextIndex ==
    \/ nstart = 0 /\ api_crawl_start
    \/ nstart = 0 /\ api_search_and_learn
    \/ WorkerStep
    \/ SingleFetch
    \/ SingleRead
    \/ SingleWrite
    \/ SingleDocs
    \/ SingleBuild
    \/ SingleStore
    \/ SearchRead

SpecIndex == InitCrawl /\ [][NextIndex]_vars

\* one crawl session that no stop request ends
NextSession ==
    \/ api_crawl_start_budget
    \/ WorkerStep

SpecSession == InitCrawl /\ [][NextSession]_vars

\* the same with a worker thread that is scheduled as long as it can step:
\* every fetch returns, every sleep ends
LiveSession == SpecSession /\ WF_vars(WorkerStep)

\* requests with input errors among the requests that ingest documents
NextInput ==
    \/ nstart = 0 /\ api_crawl_start
    \/ nstart = 0 /\ api_search_and_learn
    \/ nstart > 0 /\ crawl_state.running /\ api_crawl_start
    \/ WorkerStep
    \/ SingleFetch
    \/ SingleRead
    \/ SingleWrite
    \/ SingleDocs
    \/ SingleBuild
    \/ SingleStore
    \/ \E r \in Threads : AskEmpty(r)

SpecInput == InitCrawl /\ [][NextInput]_vars

----------------------------------------------------------------------------
(* The claims *)

\* the thresholds reachable from t by s successes, f failures and e evolve
\* steps applied one after another in any order
RECURSIVE SerialResults(_, _, _, _)
SerialResults(t, s, f, e) ==
    IF s = 0 /\ f = 0 /\ e = 0 THEN {t}
    ELSE (IF s > 0 THEN SerialResults(AskAdjust(t, TRUE), s - 1, f, e) ELSE {})
         \cup (IF f > 0 THEN SerialResults(AskAdjust(t, FALSE), s, f - 1, e) ELSE {})
         \cup (IF e > 0 THEN SerialResults(EvolveAdjust(t), s, f, e - 1) ELSE {})

\* C1: in every state reachable from a fresh process with an empty log, by
\* ask (success or failure), evolve and restart, the threshold is within
\* [0.05, 0.5]; so is every threshold recorded in the log, which a restart
\* reloads.
C1_ThresholdWithinBounds ==
    /\ AskMin <= threshold /\ threshold <= AskMax
    /\ \A i \in 1..Len(log_file) :
         AskMin <= log_file[i].threshold /\ log_file[i].threshold <= AskMax

\* the process was restarted over a log whose last entry holds the lower
\* bound, reached by the clamp of a success
C1_Witness ==
    /\ nrestart > 0
    /\ log_file # <<>>
    /\ log_file[Len(log_file)].success
    /\ hist.base = AskMin
    /\ threshold = AskMin

\* C2: for every starting threshold, also outside the bounds, and either
\* outcome, the threshold after a single interaction lies within
\* [threshold_min, threshold_max].
C2_SingleStepWithinBounds ==
    adjust.pc = "done" =>
        threshold_min <= adjust.result /\ adjust.result <= threshold_max

\* C3: under concurrent ask requests no threshold update is lost: whenever no
\* request is between its load and its store of the threshold, the threshold
\* is the result of the updates made since the process started, applied one
\* after another in some order.
C3_NoLostUpdate ==
    ((\A r \in Threads : ask[r].pc # "store") /\ evolve.pc # "store")
        => threshold \in SerialResults(hist.base, hist.s, hist.f, hist.e)

\* C9: for every question, index, integer top_k (the unvalidated k of GET
\* /search included) and threshold, query_documents returns at most top_k
\* entries (none for a negative top_k), each with score >= threshold.
C9_AtMostTopK ==
    query.pc = "done" =>
        /\ Len(query.result.selected) <= Max(0, query.k)
        /\ \A p \in 1..Len(query.result.selected) : query.result.selected[p].score >= query.th

\* C10: when retrieval yields no passages, search_answer returns exactly
\* "Je ne sais pas", no citations and confidence 0.0, and the generative
\* backend is not called.
C10_NoPassages ==
    (search.pc = "done" /\ search.passages = <<>>) =>
        search.result = [answer |-> Sentinel, citations |-> <<>>, confidence |-> 0,
                         llm_called |-> FALSE]

\* both backends yield nothing (the vector backend is down and no document
\* matches), the gate is open and the generative backend would answer
C10_Witness ==
    /\ search.pc = "done"
    /\ search.passages = <<>>
    /\ search.pg.none
    /\ search.th = 0
    /\ ~search.llm.none /\ search.llm.text # <<>>
    /\ search.result.answer = Sentinel

\* the worker is in its loop: started, and not yet past the loop's break
InLoop(w) == Alive(w) /\ ~worker[w].final

\* C4: a start request (crawl_start, search_and_learn) handled while the
\* session is marked running is answered with an error and changes nothing of
\* the crawl: no worker is started, and the session's seeds, queue, visited
\* set and counters stay as they are.  The error is 409 whenever the request
\* carries valid seeds (400 and 424 are the answers to a request without any).
C4_StartWhileRunningConflict ==
    [][(crawl_state.running /\ response' # response
                            /\ response'.op \in {"crawl_start", "search_and_learn"}) =>
          /\ response'.status \in {400, 409, 424}
          /\ UNCHANGED crawlVars
          /\ \A op \in {"crawl_start", "search_and_learn"},
                seeds \in SeedLists \ {<<BadUrl>>},
                max_pages \in 1..MaxPages, same_domain \in BOOLEAN :
                start_crawl(op, seeds, max_pages, same_domain) => response'.status = 409
      ]_vars

\* C4, witness: a running session with queued seeds has answered a start
\* request with 409
C4_Witness ==
    /\ crawl_state.running
    /\ response = [op |-> "crawl_start", status |-> 409]
    /\ queue[crawl_state.session] # <<>>
    /\ Cardinality({w \in Workers : Alive(w)}) = 1

\* C5: at most one crawl worker is in its loop at any time
C5_AtMostOneWorker == Cardinality({w \in Workers : InLoop(w)}) <= 1

\* C6: a worker that was alive when a stop was requested starts no further
\* iteration: it takes no URL from the queue any more
C6_StoppedWorkerFetchesNoMore ==
    [][\A w \in stopped : ~(worker[w].pc = "loop" /\ worker'[w].pc = "visit")]_vars

\* C7: the visited set of the current session never holds more URLs than the
\* session's max_pages
C7_VisitedWithinBudget ==
    Cardinality(visited[crawl_state.session]) <= crawl_state.max_pages

\* C8: a request that loads (doc_vecs, idf, docs) gets the three of one
\* build, with as many vectors as documents
C8_ReaderSeesOneBuild ==
    reader.read => reader.one_build /\ reader.nvecs = reader.ndocs

\* C11: when the mean score of the retrieved passages, clamped to [0, 1], is
\* below the confidence threshold, the answer is the sentinel, the generative
\* backend is not called and the citations are the {title, url} of all the
\* retrieved passages, in retrieval order
C11_LowConfidenceShortCircuit ==
    (/\ search.pc = "done"
     /\ search.passages # <<>>
     /\ Max(0, Min(One * Len(search.passages), SumScores(search.passages)))
            < search.th * Len(search.passages))
    => /\ search.result.answer = Sentinel
       /\ ~search.result.llm_called
       /\ search.result.citations =
              [i \in 1..Len(search.passages) |->
                  [title |-> search.passages[i].title, url |-> search.passages[i].url]]

\* C11, witness: one passage of score 0.9 under a threshold of 0.95, with a
\* generative backend that would answer
C11_Witness ==
    /\ search.pc = "done"
    /\ Len(search.passages) = 1
    /\ search.passages[1].score = 9000000
    /\ search.th = 9500000
    /\ ~search.llm.none /\ search.llm.text # <<>>
    /\ search.result.answer = Sentinel
    /\ Len(search.result.citations) = 1

\* C12: the citations search_answer returns hold no (title, url) pair twice
C12_CitationsDeduplicated ==
    search.pc = "done" =>
        \A i, j \in 1..Len(search.result.citations) :
            i # j => search.result.citations[i] # search.result.citations[j]

\* C13: a call of search_answer never ends with an exception
C13_AnswerNeverRaises == search.pc \notin {"raised", "failed"}

\* C14: retrieve_passages returns the rows of the vector backend whenever the
\* backend gives a result (and then the TF-IDF path is not run: an unreadable
\* store cannot fail the call); when the backend fails at any step it returns
\* the TF-IDF passages, and the failure of the backend is not what the call
\* ends with
C14_BackendThenFallback ==
    /\ (search.pc \in {"done", "failed", "raised"} /\ search.backend.state = "rows")
          => search.pc \in {"done", "failed"} /\ search.passages = search.backend.rows
    /\ (search.pc \in {"done", "failed"} /\ search.backend.state # "rows")
          => search.passages = FallbackSearch(search.sim, dataset, search.top_k)
    /\ (search.pc = "raised") => search.store = "unreadable"

\* C14, witness: the backend returned no row, the store cannot be read and
\* the question matches a document of it: the result is the empty list
C14_Witness ==
    /\ search.pc = "done"
    /\ search.backend = [state |-> "rows", rows |-> <<>>]
    /\ search.store = "unreadable"
    /\ search.sim # [i \in 1..NumSeedDocs |-> 0]
    /\ search.passages = <<>>

\* C15: a request answered 400 (empty question, missing or invalid URL or
\* seed) changes neither the threshold, the interaction log, the document
\* store, the in-memory index nor the state of the crawl session
C15_InputErrorNoMutation ==
    [][(/\ response'.status = 400
        /\ response' # response \/ nreq' # nreq \/ single'.n # single.n)
       => UNCHANGED <<threshold, log_file, dataset, docs, doc_vecs, idf,
                      crawl_state, visited, queue, worker, nstart>>]_vars

\* C15, witness: a start with an invalid seed was answered 400 while a crawl
\* is running over a store that holds a document
C15_Witness ==
    /\ response = [op |-> "crawl_start", status |-> 400]
    /\ crawl_state.running
    /\ dataset # <<>>
    /\ nreq > 0

\* C16: the document store never holds two documents with the same URL
C16_NoDuplicateUrl ==
    \A i, j \in 1..Len(dataset) : i # j => dataset[i].url # dataset[j].url

\* C17: every newly started crawl session begins with an empty set of
\* blocked domains
C17_SessionStartsUnblocked ==
    [][nstart' > nstart => crawl_state'.blocked_domains = {}]_vars

\* C18: a worker of a session fetches no URL of a domain for which a worker
\* of that session has received a 403
C18_NoFetchAfter403 ==
    [][\A w, v \in Workers :
          (/\ Alive(w) /\ Alive(v) /\ worker[v].session = worker[w].session
           /\ worker[w].pc = "fetch" /\ worker'[w].pc # "fetch")
          => DomainOf(worker[w].current) \notin worker[v].block_domains]_vars

\* C19: a URL the worker skips at the fetch (an error, an exhausted
\* rate-limit retry, a response that is not HTML) adds one to the session's
\* error count
C19_SkippedUrlCounted ==
    [][\A w \in Workers :
          (/\ worker[w].pc = "fetch" /\ worker'[w].pc = "loop"
           /\ worker'[w].retries = worker[w].retries)
          => crawl_state'.errors = crawl_state.errors + 1]_vars

\* C20: when a process starts, the server or the interactive one, its
\* threshold is the threshold of the last entry of logs.json, and 0.1 when
\* there is none
C20_StartFromLastLog ==
    [][/\ nrestart' > nrestart => threshold' = GetLastThreshold(log_file)
       /\ (cli.pc = "off" /\ cli'.pc = "prompt")
             => cli'.threshold = GetLastThreshold(log_file)]_vars

C22_SuccessIffTwoDistinctUrls ==
    query.pc = "answered" =>
        (query.success <=>
            Cardinality({query.sources[i] : i \in 1..Len(query.sources)}) >= 2)

\* C23: the interaction log is append-only: every write of logs.json adds
\* exactly one entry at the end and keeps all the entries it held
C23_LogAppendOnly ==
    [][log_file' # log_file =>
          /\ Len(log_file') = Len(log_file) + 1
          /\ SubSeq(log_file', 1, Len(log_file)) = log_file]_vars

C25_StoreWritesSerialized ==
    [][dataset' # dataset =>
          /\ Len(dataset') = Len(dataset) + 1
          /\ SubSeq(dataset', 1, Len(dataset)) = dataset]_vars

\* C26: a URL the worker has re-enqueued after a first 429 is fetched a
\* second time: when the worker takes it from the queue again it does not
\* drop it
C26_RetryIsFetched ==
    [][\A w \in Workers :
          (worker[w].pc = "visit" /\ worker[w].current \in worker[w].retries)
          => worker'[w].pc # "loop"]_vars

\* C27: the crawl worker never appends a document whose stored content is
\* the stored content of a document the store already holds
C27_NoDuplicateContent ==
    [][\A w \in Workers :
          (worker[w].pc = "write" /\ worker'[w].pc # "write")
          => \A i \in 1..Len(dataset) :
                dataset[i].content # dataset'[Len(dataset')].content]_vars

\* C28: when the confidence gate passes and the generative backend gives no
\* answer, the answer is one paragraph for each of the first min(3, n)
\* passages, in rank order, each ending with the marker of its passage, and
\* nothing of a passage ranked lower
C28_FallbackFromTopThree ==
    (/\ search.pc \in {"done", "failed"}
     /\ search.passages # <<>>
     /\ Max(0, Min(One * Len(search.passages), SumScores(search.passages)))
            >= search.th * Len(search.passages)
     /\ search.llm.none \/ search.llm.text = <<>>)
    => /\ search.pc = "done"
       /\ Len(search.result.answer) = Min(3, Len(search.passages))
       /\ \A i \in 1..Len(search.result.answer) :
             /\ search.result.answer[i].body = [kind |-> "snippet", of |-> search.passages[i].content]
             /\ search.result.answer[i].title = search.passages[i].title
             /\ search.result.answer[i].url = search.passages[i].url

\* C29: at the head of a worker iteration fewer than 5 of the documents the
\* worker has appended are missing from the in-memory documents, and once the
\* worker has terminated the in-memory documents hold every document it
\* appended, each with a vector in the index
C29_IndexCatchesUp ==
    LET indexed == {docs[i] : i \in 1..Min(Len(docs), Len(doc_vecs))}
        missing == crawl_state.appended \ indexed
    IN  /\ (\E w \in Workers : worker[w].pc = "loop") => Cardinality(missing) < ReindexBatch
        /\ (nstart > 0 /\ \A w \in Workers : ~Alive(w)) => missing = {}

\* C30: without a stop request, a started crawl session with a finite page
\* budget eventually ends: running is False and the worker thread is gone
C30_SessionEnds ==
    (nstart > 0) ~> (~crawl_state.running /\ \A w \in Workers : ~Alive(w))

\* C30, witness: the session has ended on its budget, with documents added
\* and discovered links still in its queue
C30_Witness ==
    /\ nstart > 0
    /\ ~crawl_state.running
    /\ \A w \in Workers : ~Alive(w)
    /\ Cardinality(visited[crawl_state.session]) = crawl_state.max_pages
    /\ crawl_state.added > 0
    /\ queue[crawl_state.session] # <<>>

====
